---------------------------- MODULE Spec2Model ----------------------------
(***************************************************************************)
(* Model of earthquake_bot.py: the incremental-detection pipeline          *)
(*   fetch_data -> parse_line -> normalize/CITIES -> filter_new ->         *)
(*   build_message -> send_text -> save_last_id                            *)
(* Bulletin lines, tokens, event ids and the cursor are strings, handled   *)
(* character by character as the Python code handles them.  Characters     *)
(* outside ASCII cannot be written in a TLA+ string; the Turkish letters   *)
(* of normalize() and the emoji of build_message() are written with the    *)
(* ASCII stand-ins defined below.                                          *)
(***************************************************************************)
EXTENDS Integers, Sequences, FiniteSets, TLC

\* ------------------------------------------------------------------------
\* Characters and strings
\* ------------------------------------------------------------------------

\* str.split() with no argument splits on runs of whitespace.
IsSpace(c) == c \in {" ", "\t", "\n", "\r", "\f"}

\* Stand-ins for the Turkish letters (one character each, as in the page's
\* single-byte encoding).
TR_I_DOT   == "!"   \* capital I with dot above
TR_i_NODOT == "|"   \* small dotless i
TR_S_CED   == "$"   \* capital S with cedilla
TR_s_CED   == "%"   \* small s with cedilla
TR_G_BRV   == "&"   \* capital G with breve
TR_g_BRV   == "@"   \* small g with breve
TR_U_DIA   == "^"   \* capital U with diaeresis
TR_u_DIA   == "~"   \* small u with diaeresis
TR_O_DIA   == "{"   \* capital O with diaeresis
TR_o_DIA   == "}"   \* small o with diaeresis
TR_C_CED   == "="   \* capital C with cedilla
TR_c_CED   == "?"   \* small c with cedilla

\* str.upper() on one character: the ASCII letters, and the Turkish letters
\* that have a capital form (the capital of the dotless i is the ASCII I).
UpperMap ==
    [c \in {"a","b","c","d","e","f","g","h","i","j","k","l","m",
             "n","o","p","q","r","s","t","u","v","w","x","y","z",
             TR_i_NODOT, TR_s_CED, TR_g_BRV, TR_u_DIA, TR_o_DIA, TR_c_CED} |->
        CASE c = "a" -> "A" [] c = "b" -> "B" [] c = "c" -> "C" [] c = "d" -> "D"
          [] c = "e" -> "E" [] c = "f" -> "F" [] c = "g" -> "G" [] c = "h" -> "H"
          [] c = "i" -> "I" [] c = "j" -> "J" [] c = "k" -> "K" [] c = "l" -> "L"
          [] c = "m" -> "M" [] c = "n" -> "N" [] c = "o" -> "O" [] c = "p" -> "P"
          [] c = "q" -> "Q" [] c = "r" -> "R" [] c = "s" -> "S" [] c = "t" -> "T"
          [] c = "u" -> "U" [] c = "v" -> "V" [] c = "w" -> "W" [] c = "x" -> "X"
          [] c = "y" -> "Y" [] c = "z" -> "Z"
          [] c = TR_i_NODOT -> "I"
          [] c = TR_s_CED   -> TR_S_CED
          [] c = TR_g_BRV   -> TR_G_BRV
          [] c = TR_u_DIA   -> TR_U_DIA
          [] c = TR_o_DIA   -> TR_O_DIA
          [] c = TR_c_CED   -> TR_C_CED]

UpperChar(c) == IF c \in DOMAIN UpperMap THEN UpperMap[c] ELSE c

\* The chain of .replace() calls of normalize(), on one character.
ReplaceChar(c) ==
    CASE c = TR_I_DOT   -> "I"
      [] c = TR_i_NODOT -> "I"
      [] c = TR_S_CED   -> "S"
      [] c = TR_G_BRV   -> "G"
      [] c = TR_U_DIA   -> "U"
      [] c = TR_O_DIA   -> "O"
      [] c = TR_C_CED   -> "C"
      [] OTHER          -> c

RECURSIVE MapChars(_, _, _)
MapChars(s, i, acc) ==
    IF i > Len(s) THEN acc
    ELSE MapChars(s, i + 1, acc \o ReplaceChar(UpperChar(SubSeq(s, i, i))))

normalize(text) == MapChars(text, 1, "")

\* Python's  a in b  for strings.
Contains(b, a) ==
    \E i \in 1..(Len(b) - Len(a) + 1) : SubSeq(b, i, i + Len(a) - 1) = a

\* str.split(): the maximal runs of non-whitespace characters, in order.
\* A run starts at a non-space character that is first or follows a space,
\* and ends before the next space (or at the end of the string).
RunStarts(s) ==
    {i \in 1..Len(s) : /\ ~IsSpace(SubSeq(s, i, i))
                        /\ (i = 1 \/ IsSpace(SubSeq(s, i - 1, i - 1)))}
RunEnds(s) ==
    {i \in 1..Len(s) : /\ ~IsSpace(SubSeq(s, i, i))
                        /\ (i = Len(s) \/ IsSpace(SubSeq(s, i + 1, i + 1)))}
\* The k-th smallest element of a set of integers.
Nth(S, k) == CHOOSE i \in S : Cardinality({j \in S : j < i}) = k - 1

Split(s) ==
    LET starts == RunStarts(s)
        ends   == RunEnds(s)
    IN  [k \in 1..Cardinality(starts) |-> SubSeq(s, Nth(starts, k), Nth(ends, k))]

\* " ".join(parts)
RECURSIVE JoinSp(_)
JoinSp(parts) ==
    IF parts = <<>> THEN ""
    ELSE IF Len(parts) = 1 THEN parts[1]
    ELSE parts[1] \o " " \o JoinSp(Tail(parts))

\* str.strip()
RECURSIVE LStrip(_)
LStrip(s) ==
    IF Len(s) > 0 /\ IsSpace(SubSeq(s, 1, 1)) THEN LStrip(SubSeq(s, 2, Len(s))) ELSE s
RECURSIVE RStrip(_)
RStrip(s) ==
    IF Len(s) > 0 /\ IsSpace(SubSeq(s, Len(s), Len(s)))
    THEN RStrip(SubSeq(s, 1, Len(s) - 1)) ELSE s
Strip(s) == LStrip(RStrip(s))

Reverse(q) == [i \in 1..Len(q) |-> q[Len(q) + 1 - i]]

\* ------------------------------------------------------------------------
\* Constants of the program
\* ------------------------------------------------------------------------
CITIES       == <<"ISTANBUL", "IZMIR", "MANISA">>
MAX_MESSAGES == 20


\* ------------------------------------------------------------------------
\* Bounds of the model
\* ------------------------------------------------------------------------
FeedLen  == 30   \* lines of the long feed
MaxRuns  == 3    \* runs of main in one behaviour
MaxLines == 3    \* longest bulletin handed to filter_new on its own
MaxFaults == 1   \* failed steps (fetch, read, send, write) in one behaviour
PageLines == 25  \* the page lists the newest PageLines lines of the feed

\* ------------------------------------------------------------------------
\* Bulletin lines the model draws from
\* ------------------------------------------------------------------------

\* The long feed, oldest line first: one line a minute.  Line 4 names no
\* watched region, line 6 has 8 tokens, the others name a watched region in
\* the spellings the page uses (capitals, small letters, Turkish letters).
LongLine(i) ==
    LET stamp == "2024.01.15 10:" \o ToString(10 + i) \o ":00 " IN
    IF i = 4 THEN stamp \o "36.5 28.9 7.1 -.- 2.4 -.- AKDENIZ (MUGLA) Ilksel"
    ELSE IF i = 6 THEN stamp \o "38.4 27.1 5.0 -.- 1.9 IZMIR"
    ELSE IF i % 3 = 0 THEN stamp \o "38.3 26.7 6.9 -.- 2.1 -.- BADEMLER-URLA (IZMIR) Ilksel"
    ELSE IF i % 3 = 1 THEN stamp \o "40.8 28.2 9.3 -.- 1.7 -.- SILIVRI ACIKLARI-!STANBUL (MARMARA DEN!Z!) !lksel"
    ELSE stamp \o "39.1 27.6 5.4 -.- 3.0 -.- Kayadibi - Soma (Manisa) |lksel"

FeedLong == [i \in 1..FeedLen |-> LongLine(i)]

\* The scenario feed: nine well-formed lines of an unwatched region, then
\* (newest) the line with IZMIR MERKEZ.
IzmirLine == "2024.01.01 10:00:00 38.1 27.2 5.0 1.0 2.0 1.0 IZMIR MERKEZ"
FeedScenario ==
    [i \in 1..10 |->
        IF i = 10 THEN IzmirLine
        ELSE "2024.01.01 0" \o ToString(i) \o ":00:00 38.5 43.3 5.0 1.0 2.0 1.0 VAN MERKEZ"]

\* The long feed after the source has revised line RevisedLine: the event
\* is located again and its time of origin corrected by a second.
RevisedLine == 2
FeedRevised ==
    [i \in 1..FeedLen |->
        IF i = RevisedLine
        THEN "2024.01.15 10:12:01 39.2 27.6 6.1 -.- 3.1 -.- Kayadibi - Soma (Manisa) REVIZE01"
        ELSE LongLine(i)]

Feed(id) ==
    IF id = "long" THEN FeedLong
    ELSE IF id = "revised" THEN FeedRevised
    ELSE FeedScenario

\* The page moves from one of these published counts to a later one between
\* two runs (any number of new lines at once, up to more than MAX_MESSAGES).
Checkpoints(id) ==
    IF id = "scenario" THEN {10} ELSE {2, 6, FeedLen - 6, FeedLen - 3, FeedLen}

\* Lines for calls of filter_new on its own: watched regions, two lines with
\* the same date and time, an unwatched region, a line of 8 tokens.
PoolA  == "2024.01.15 10:30:00 38.3 26.7 6.9 -.- 2.1 -.- BADEMLER-URLA (IZMIR) Ilksel"
PoolA2 == "2024.01.15 10:30:00 38.4 27.0 8.0 -.- 2.6 -.- BORNOVA (IZMIR) Ilksel"
PoolB  == "2024.01.15 10:20:00 40.8 28.2 9.3 -.- 1.7 -.- silivri a?|klar|-!stanbul (marmara) !lksel"
PoolC  == "2024.01.15 10:10:00 39.1 27.6 5.4 -.- 3.0 -.- SOMA (MANISA) Ilksel"
PoolU  == "2024.01.15 10:25:00 36.5 28.9 7.1 -.- 2.4 -.- AKDENIZ (MUGLA) Ilksel"
PoolM  == "2024.01.15 10:15:00 38.4 27.1 5.0 -.- 1.9 IZMIR"
LinePool == {PoolA, PoolA2, PoolB, PoolC, PoolU, PoolM}
CursorPool == {"", "2024.01.15_10:30:00", "2024.01.15_10:20:00", "2024.01.14_09:00:00"}

LineUniverse ==
    LinePool \cup {FeedLong[i] : i \in 1..FeedLen} \cup {FeedScenario[i] : i \in 1..10}
        \cup {FeedRevised[RevisedLine]}

\* ------------------------------------------------------------------------
\* parse_line, region test, filter_new
\* ------------------------------------------------------------------------
None == [none |-> TRUE]

parse_line(line) ==
    LET parts == Split(line) IN
    IF Len(parts) < 10 THEN None
    ELSE [date  |-> parts[1],
          time  |-> parts[2],
          lat   |-> parts[3],
          lon   |-> parts[4],
          depth |-> parts[5],
          mag   |-> parts[7],
          place |-> JoinSp(SubSeq(parts, 10, Len(parts)))]

\* The region test on the place as written, without normalize.
InCities_raw(place) ==
    \E k \in 1..Len(CITIES) : Contains(place, CITIES[k])

\* any(city in normalize(data["place"]) for city in CITIES)
InCities(place) ==
    LET n == normalize(place) IN
    \E k \in 1..Len(CITIES) : Contains(n, CITIES[k])

\* f"{data['date']}_{data['time']}"
EventId(data) == data.date \o "_" \o data.time

\* parse_line and the region test are functions of the line alone; their
\* values on the lines of the model are computed once.
ParseTable == [l \in LineUniverse |-> parse_line(l)]
Parsed(line) == IF line \in DOMAIN ParseTable THEN ParseTable[line] ELSE parse_line(line)
WatchedTable ==
    [l \in LineUniverse |-> ParseTable[l] # None /\ InCities(ParseTable[l].place)]
Watched(line, data) ==
    IF line \in DOMAIN WatchedTable THEN WatchedTable[line] ELSE InCities(data.place)

\* The loop of filter_new from line i on, with the list found so far;
\* ScanLine is the loop body on line i, whose parse is data.
RECURSIVE ScanFrom(_, _, _, _)
\* ScanLine with the cap tested by > instead of >=.
ScanLine_capoff(lines, last_id, i, found, data) ==
    IF data = None THEN ScanFrom(lines, last_id, i + 1, found)
    ELSE IF ~Watched(lines[i], data) THEN ScanFrom(lines, last_id, i + 1, found)
    ELSE IF EventId(data) = last_id THEN found
    ELSE IF Len(found) + 1 > MAX_MESSAGES THEN Append(found, <<EventId(data), data>>)
    ELSE ScanFrom(lines, last_id, i + 1, Append(found, <<EventId(data), data>>))
\* ScanLine with continue instead of break at the cursor.
ScanLine_continue(lines, last_id, i, found, data) ==
    IF data = None THEN ScanFrom(lines, last_id, i + 1, found)
    ELSE IF ~Watched(lines[i], data) THEN ScanFrom(lines, last_id, i + 1, found)
    ELSE IF EventId(data) = last_id THEN ScanFrom(lines, last_id, i + 1, found)
    ELSE IF Len(found) + 1 >= MAX_MESSAGES THEN Append(found, <<EventId(data), data>>)
    ELSE ScanFrom(lines, last_id, i + 1, Append(found, <<EventId(data), data>>))
\* ScanLine with break instead of continue on a line parse_line rejects.
ScanLine_stop_on_reject(lines, last_id, i, found, data) ==
    IF data = None THEN found
    ELSE IF ~Watched(lines[i], data) THEN ScanFrom(lines, last_id, i + 1, found)
    ELSE IF EventId(data) = last_id THEN found
    ELSE IF Len(found) + 1 >= MAX_MESSAGES THEN Append(found, <<EventId(data), data>>)
    ELSE ScanFrom(lines, last_id, i + 1, Append(found, <<EventId(data), data>>))
ScanLine(lines, last_id, i, found, data) ==
    IF data = None THEN ScanFrom(lines, last_id, i + 1, found)
    ELSE IF ~Watched(lines[i], data) THEN ScanFrom(lines, last_id, i + 1, found)
    ELSE IF EventId(data) = last_id THEN found
    ELSE IF Len(found) + 1 >= MAX_MESSAGES THEN Append(found, <<EventId(data), data>>)
    ELSE ScanFrom(lines, last_id, i + 1, Append(found, <<EventId(data), data>>))
ScanFrom(lines, last_id, i, found) ==
    IF i > Len(lines) THEN found
    ELSE ScanLine(lines, last_id, i, found, Parsed(lines[i]))

\* filter_new leaving out the first record the scan found.
DropFirst(q) == IF q = <<>> THEN q ELSE Tail(q)
filter_new_skipnewest(lines, last_id) ==
    Reverse(DropFirst(ScanFrom(lines, last_id, 1, <<>>)))
\* filter_new without the final reversal.
filter_new_noreverse(lines, last_id) == ScanFrom(lines, last_id, 1, <<>>)
filter_new(lines, last_id) == Reverse(ScanFrom(lines, last_id, 1, <<>>))

\* ------------------------------------------------------------------------
\* fetch_data
\* ------------------------------------------------------------------------

\* The six title lines that precede the data in the page's <pre> block.
PreHeader ==
    <<"..................................................",
      "TURKIYE VE YAKIN CEVRESINDEKI SON DEPREMLER",
      "Son 500 deprem",
      "",
      "Tarih      Saat      Enlem(N)  Boylam(E) Derinlik(km)  MD   ML   Mw    Yer",
      "---------- --------  --------  -------   ----------    ------------    ---">>

\* What the GET meets: a failed request, a page without <pre>, or a page
\* whose <pre> holds the title lines and then the bulletin, newest first.
\* The <pre> text is kept as its lines, i.e. as  pre.text.strip().split("\n").
FetchOutcomes == {"ok", "request_error", "no_pre"}
Response(outcome, bulletin) ==
    IF outcome = "request_error"
    THEN [failed |-> TRUE, hasPre |-> FALSE, pre |-> <<>>]
    ELSE IF outcome = "no_pre"
    THEN [failed |-> FALSE, hasPre |-> FALSE, pre |-> <<>>]
    ELSE [failed |-> FALSE, hasPre |-> TRUE, pre |-> PreHeader \o bulletin]

fetch_data(resp) ==
    IF resp.failed THEN <<>>
    ELSE IF resp.hasPre THEN SubSeq(resp.pre, 7, Len(resp.pre)) ELSE <<>>

\* ------------------------------------------------------------------------
\* load_last_id, save_last_id
\* ------------------------------------------------------------------------

\* The state file: whether it exists, and its content.
NoFile == [exists |-> FALSE, content |-> ""]

\* readOk = FALSE: open()/read() of an existing file raises IOError.
load_last_id(file, readOk) ==
    IF file.exists
    THEN IF readOk THEN Strip(file.content) ELSE ""
    ELSE ""

\* open(STATE_FILE, "w") creates or truncates the file before anything is
\* written: an IOError raised by open leaves the file as it was, an IOError
\* raised while writing leaves it truncated.
WriteOutcomes == {"ok", "open_error", "write_error"}
\* save_last_id that reports success and writes nothing.
save_last_id_lost(file, eid, outcome) ==
    IF outcome = "write_error" THEN [exists |-> TRUE, content |-> ""] ELSE file
save_last_id(file, eid, outcome) ==
    IF outcome = "ok" THEN [exists |-> TRUE, content |-> eid]
    ELSE IF outcome = "write_error" THEN [exists |-> TRUE, content |-> ""]
    ELSE file

\* ------------------------------------------------------------------------
\* build_message, send_text
\* ------------------------------------------------------------------------
MsgHeader == "[satellite] <b>Yeni Deprem Bildirimleri</b> [satellite]\n\n"

FormatPart(eid, d) ==
    "[pin] <b>" \o d.place \o "</b>\n" \o
    "   [calendar] " \o d.date \o " " \o d.time \o " (TS" \o TR_I_DOT \o ")\n" \o
    "   [volcano] " \o d.mag \o " ML -- [ruler] " \o d.depth \o " km\n" \o
    "   [round_pushpin] " \o d.lat \o ", " \o d.lon \o "\n" \o
    "<code>#ID: " \o eid \o "</code>"

\* build_message leaving out the last event of the batch.
build_message_droplast(events) ==
    [header |-> MsgHeader,
     parts  |-> [i \in 1..(Len(events) - 1) |-> FormatPart(events[i][1], events[i][2])]]

\* The message text is  header + "\n\n".join(parts) ; it is kept as its header
\* and its parts.
build_message(events) ==
    [header |-> MsgHeader,
     parts  |-> [i \in 1..Len(events) |-> FormatPart(events[i][1], events[i][2])]]

\* "\n\n".join(parts)
RECURSIVE JoinNN(_)
JoinNN(parts) ==
    IF parts = <<>> THEN ""
    ELSE IF Len(parts) = 1 THEN parts[1]
    ELSE parts[1] \o "\n\n" \o JoinNN(Tail(parts))

\* The string build_message returns: header + "\n\n".join(parts)
MessageText(msg) == msg.header \o JoinNN(msg.parts)

\* The chat is the sequence of messages it has received.  sendOk = FALSE:
\* bot.send_message raises; the exception is logged and not passed on.
send_text(chat, text, sendOk) == IF sendOk THEN Append(chat, text) ELSE chat

\* The event id a part of a message shows: the text between the last
\* "<code>#ID: " and the "</code>" that ends the part ("" if there is none).
IdOpen  == "<code>#ID: "
IdClose == "</code>"
RECURSIVE LastOpen(_, _)
LastOpen(part, i) ==
    IF i < 1 THEN 0
    ELSE IF SubSeq(part, i, i + Len(IdOpen) - 1) = IdOpen THEN i
    ELSE LastOpen(part, i - 1)
PartId(part) ==
    LET n == Len(part)
        e == n - Len(IdClose)
    IN  IF e < 0 \/ SubSeq(part, e + 1, n) # IdClose THEN ""
        ELSE LET o == LastOpen(part, e - Len(IdOpen) + 1) IN
             IF o = 0 THEN "" ELSE SubSeq(part, o + Len(IdOpen), e)
IdsIn(msg) == [k \in 1..Len(msg.parts) |-> PartId(msg.parts[k])]

\* ------------------------------------------------------------------------
\* main
\* ------------------------------------------------------------------------

\* One run of main on the state file and the chat, given what the GET meets
\* and whether the read, the send and the write succeed.  The result holds
\* the file and the chat after the run, and the record of the run.  main is
\* written as its stages: each takes what the stages before it computed.

\* The record of a run that stopped before load_last_id.
RunRecord(resp, lines, file) ==
    [fetched |-> ~resp.failed /\ resp.hasPre,
     lines |-> lines, fileBefore |-> file, loaded |-> FALSE,
     readOk |-> TRUE, last_id |-> "", batch |-> <<>>,
     sendTried |-> FALSE, sendOk |-> FALSE, ids |-> <<>>,
     saveTried |-> FALSE, write |-> "none", fileAfter |-> file]

\* main saving new_qs[0][0], the oldest id of the batch.
main_deliver_saves_oldest(file, chat, rec, new_qs, msg, sendOk, write) ==
    [file |-> save_last_id(file, new_qs[1][1], write),
     chat |-> send_text(chat, msg, sendOk),
     run  |-> [rec EXCEPT !.sendTried = TRUE, !.sendOk = sendOk,
                          !.ids = IF sendOk THEN IdsIn(msg) ELSE <<>>,
                          !.saveTried = TRUE, !.write = write,
                          !.fileAfter = save_last_id(file, new_qs[1][1], write)]]

\* msg = build_message(new_qs); send_text(msg); save_last_id(new_qs[-1][0])
main_deliver(file, chat, rec, new_qs, msg, sendOk, write) ==
    [file |-> save_last_id(file, new_qs[Len(new_qs)][1], write),
     chat |-> send_text(chat, msg, sendOk),
     run  |-> [rec EXCEPT !.sendTried = TRUE, !.sendOk = sendOk,
                          !.ids = IF sendOk THEN IdsIn(msg) ELSE <<>>,
                          !.saveTried = TRUE, !.write = write,
                          !.fileAfter = save_last_id(file, new_qs[Len(new_qs)][1], write)]]

\* main returning without a delivery when the cursor it loaded is empty.
main_select_silent(file, chat, rec, new_qs, sendOk, write) ==
    IF new_qs = <<>> \/ rec.last_id = ""
    THEN [file |-> file, chat |-> chat, run |-> rec]
    ELSE main_deliver(file, chat, rec, new_qs, build_message(new_qs), sendOk, write)

\* new_qs = filter_new(lines, last_id); if not new_qs: return
main_select(file, chat, rec, new_qs, sendOk, write) ==
    IF new_qs = <<>>
    THEN [file |-> file, chat |-> chat, run |-> rec]
    ELSE main_deliver(file, chat, rec, new_qs, build_message(new_qs), sendOk, write)

\* last_id = load_last_id()
main_load(file, chat, rec, lines, last_id, readOk, sendOk, write) ==
    main_select(file, chat,
                [rec EXCEPT !.loaded = TRUE, !.readOk = readOk, !.last_id = last_id,
                            !.batch = filter_new(lines, last_id)],
                filter_new(lines, last_id), sendOk, write)

\* main going on to load_last_id when fetch_data returned no lines.
main_fetched_noreturn(file, chat, resp, lines, readOk, sendOk, write) ==
    main_load(file, chat, RunRecord(resp, lines, file), lines,
              load_last_id(file, readOk), readOk, sendOk, write)

\* lines = fetch_data(); if not lines: return
main_fetched(file, chat, resp, lines, readOk, sendOk, write) ==
    IF lines = <<>>
    THEN [file |-> file, chat |-> chat, run |-> RunRecord(resp, lines, file)]
    ELSE main_load(file, chat, RunRecord(resp, lines, file), lines,
                   load_last_id(file, readOk), readOk, sendOk, write)

main(file, chat, resp, readOk, sendOk, write) ==
    main_fetched(file, chat, resp, fetch_data(resp), readOk, sendOk, write)

\* ------------------------------------------------------------------------
\* State
\* ------------------------------------------------------------------------
VARIABLES
    feedId,     \* which feed the page serves
    lo, hi,     \* the page lists lines lo+1..hi of the feed, newest first
    stateFile,  \* last_id.txt
    outbox,     \* the messages the chat has received
    log,        \* history: the record of every run so far
    sel,        \* a call of filter_new or build_message on its own
    runner      \* runs of main taken step by step: where each is, its locals

vars == <<feedId, lo, hi, stateFile, outbox, log, sel, runner>>

Bulletin == Reverse(SubSeq(Feed(feedId), lo + 1, hi))

NoCall == [lines |-> <<>>, last_id |-> "", called |-> FALSE, batch |-> <<>>]
NoRunners == <<>>

Init ==
    /\ feedId \in {"long", "scenario"}
    /\ lo = 0
    /\ hi = 0
    /\ stateFile = NoFile
    /\ outbox = <<>>
    /\ log = <<>>
    /\ sel = NoCall
    /\ runner = NoRunners

\* The source publishes newer lines on top of the page; the oldest lines
\* drop off its end once it is full.
Publish ==
    /\ \E c \in Checkpoints(feedId) :
          /\ c > hi
          /\ hi' = c
          /\ lo' = IF c - PageLines > lo THEN c - PageLines ELSE lo
    /\ UNCHANGED <<feedId, stateFile, outbox, log, sel, runner>>

\* The steps of a run that failed, and of all runs so far.
FaultsOf(run) ==
    (IF run.fetched THEN 0 ELSE 1) + (IF run.readOk THEN 0 ELSE 1)
        + (IF run.sendTried /\ ~run.sendOk THEN 1 ELSE 0)
        + (IF run.saveTried /\ run.write # "ok" THEN 1 ELSE 0)
RECURSIVE FaultsUpTo(_)
FaultsUpTo(n) == IF n = 0 THEN 0 ELSE FaultsUpTo(n - 1) + FaultsOf(log[n])
Faults == FaultsUpTo(Len(log))

\* The failures a choice of outcomes asks for.
Asked(fetch, readOk, sendOk, write) ==
    (IF fetch = "ok" THEN 0 ELSE 1) + (IF readOk THEN 0 ELSE 1)
        + (IF sendOk THEN 0 ELSE 1) + (IF write = "ok" THEN 0 ELSE 1)

\* One run of main, start to end (runs do not overlap); r is what main
\* returns.  An outcome other than success is chosen only for a step the run
\* takes, and only while the behaviour has failures left.
RunResult(r, fetch, readOk, sendOk, write) ==
    /\ FaultsOf(r.run) = Asked(fetch, readOk, sendOk, write)
    /\ stateFile' = r.file
    /\ outbox' = r.chat
    /\ log' = Append(log, r.run)

Run ==
    /\ Len(log) < MaxRuns
    /\ \E fetch \in FetchOutcomes, readOk \in BOOLEAN, sendOk \in BOOLEAN,
          write \in WriteOutcomes :
         /\ Faults + Asked(fetch, readOk, sendOk, write) <= MaxFaults
         /\ readOk \/ stateFile.exists
         /\ RunResult(main(stateFile, outbox, Response(fetch, Bulletin),
                           readOk, sendOk, write),
                      fetch, readOk, sendOk, write)
    /\ UNCHANGED <<feedId, lo, hi, sel, runner>>

Next == Publish \/ Run

Spec == Init /\ [][Next]_vars

\* The source revises the line of the page that the cursor names: the page
\* then serves the revised feed.
Revise ==
    /\ feedId = "long"
    /\ lo < RevisedLine
    /\ RevisedLine <= hi
    /\ load_last_id(stateFile, TRUE) = EventId(Parsed(FeedLong[RevisedLine]))
    /\ feedId' = "revised"
    /\ UNCHANGED <<lo, hi, stateFile, outbox, log, sel, runner>>

NextStale == Publish \/ Run \/ Revise

SpecStale == Init /\ [][NextStale]_vars

\* Two runs of main taken step by step, so that they can overlap: nothing
\* locks the page, the state file or the chat between the steps of a run.
\* Each runner is at "start", "fetched" (after fetch_data), "selected" (after
\* load_last_id and filter_new), "sent" (after send_text) or "done", and
\* keeps the record of its run so far.
Runners == {1, 2}
NotStarted ==
    [at |-> "start", overlap |-> FALSE,
     rec |-> RunRecord(Response("ok", <<>>), <<>>, NoFile)]
InProgress(q) == runner[q].at \notin {"start", "done"}

\* The failed steps of both runners so far.
ConcFaults == FaultsOf(runner[1].rec) + FaultsOf(runner[2].rec)

InitConc ==
    /\ feedId = "long"
    /\ lo = 0
    /\ hi = 0
    /\ stateFile = NoFile
    /\ outbox = <<>>
    /\ log = <<>>
    /\ sel = NoCall
    /\ runner = [p \in Runners |-> NotStarted]

\* lines = fetch_data(); if not lines: return
\* A run that starts while another is in progress overlaps it.
Fetched(p, resp, lines) ==
    runner' =
        [q \in Runners |->
            IF q = p
            THEN [at |-> IF lines = <<>> THEN "done" ELSE "fetched",
                  overlap |-> \E o \in Runners \ {p} : InProgress(o),
                  rec |-> RunRecord(resp, lines, stateFile)]
            ELSE [runner[q] EXCEPT !.overlap = @ \/ InProgress(q)]]

StepFetch(p) ==
    /\ runner[p].at = "start"
    /\ \E fetch \in FetchOutcomes :
         /\ ConcFaults + (IF fetch = "ok" THEN 0 ELSE 1) <= MaxFaults
         /\ Fetched(p, Response(fetch, Bulletin), fetch_data(Response(fetch, Bulletin)))
    /\ UNCHANGED <<feedId, lo, hi, stateFile, outbox, log, sel>>

\* last_id = load_last_id(); new_qs = filter_new(lines, last_id);
\* if not new_qs: return
Selected(p, readOk, last_id, new_qs) ==
    runner' =
        [runner EXCEPT ![p].at = IF new_qs = <<>> THEN "done" ELSE "selected",
                       ![p].rec.fileBefore = stateFile,
                       ![p].rec.fileAfter = stateFile,
                       ![p].rec.loaded = TRUE,
                       ![p].rec.readOk = readOk,
                       ![p].rec.last_id = last_id,
                       ![p].rec.batch = new_qs]

StepLoad(p) ==
    /\ runner[p].at = "fetched"
    /\ \E readOk \in BOOLEAN :
         /\ readOk \/ stateFile.exists
         /\ ConcFaults + (IF readOk THEN 0 ELSE 1) <= MaxFaults
         /\ Selected(p, readOk, load_last_id(stateFile, readOk),
                     filter_new(runner[p].rec.lines, load_last_id(stateFile, readOk)))
    /\ UNCHANGED <<feedId, lo, hi, stateFile, outbox, log, sel>>

\* msg = build_message(new_qs); send_text(msg)
Sent(p, msg, sendOk) ==
    /\ outbox' = send_text(outbox, msg, sendOk)
    /\ runner' = [runner EXCEPT ![p].at = "sent",
                                ![p].rec.sendTried = TRUE,
                                ![p].rec.sendOk = sendOk,
                                ![p].rec.ids = IF sendOk THEN IdsIn(msg) ELSE <<>>]

StepSend(p) ==
    /\ runner[p].at = "selected"
    /\ \E sendOk \in BOOLEAN :
         /\ ConcFaults + (IF sendOk THEN 0 ELSE 1) <= MaxFaults
         /\ Sent(p, build_message(runner[p].rec.batch), sendOk)
    /\ UNCHANGED <<feedId, lo, hi, stateFile, log, sel>>

\* save_last_id(new_qs[-1][0])
Saved(p, file, write) ==
    /\ stateFile' = file
    /\ runner' = [runner EXCEPT ![p].at = "done",
                                ![p].rec.saveTried = TRUE,
                                ![p].rec.write = write,
                                ![p].rec.fileAfter = file]

StepSave(p) ==
    /\ runner[p].at = "sent"
    /\ \E write \in WriteOutcomes :
         /\ ConcFaults + (IF write = "ok" THEN 0 ELSE 1) <= MaxFaults
         /\ Saved(p, save_last_id(stateFile,
                                  runner[p].rec.batch[Len(runner[p].rec.batch)][1],
                                  write),
                  write)
    /\ UNCHANGED <<feedId, lo, hi, outbox, log, sel>>

\* The page gains lines while runs are about to start or in progress.
PublishConc ==
    /\ \E p \in Runners : runner[p].at # "done"
    /\ \E c \in Checkpoints(feedId) :
          /\ c > hi
          /\ hi' = c
          /\ lo' = IF c - PageLines > lo THEN c - PageLines ELSE lo
    /\ UNCHANGED <<feedId, stateFile, outbox, log, sel, runner>>

NextConc ==
    \/ PublishConc
    \/ \E p \in Runners : StepFetch(p)
    \/ \E p \in Runners : StepLoad(p)
    \/ \E p \in Runners : StepSend(p)
    \/ \E p \in Runners : StepSave(p)

SpecConc == InitConc /\ [][NextConc]_vars

\* filter_new on its own, on every bulletin of up to MaxLines lines of the
\* pool and every cursor of the pool.
RECURSIVE SeqsUpTo(_, _)
SeqsUpTo(S, n) ==
    IF n = 0 THEN {<<>>}
    ELSE LET shorter == SeqsUpTo(S, n - 1) IN
         shorter \cup {Append(q, x) : q \in {p \in shorter : Len(p) = n - 1}, x \in S}

InitSel ==
    /\ feedId = "long"
    /\ lo = 0
    /\ hi = 0
    /\ stateFile = NoFile
    /\ outbox = <<>>
    /\ log = <<>>
    /\ runner = NoRunners
    /\ \E b \in SeqsUpTo(LinePool, MaxLines), c \in CursorPool :
         sel = [lines |-> b, last_id |-> c, called |-> FALSE, batch |-> <<>>]

CallFilterNew ==
    /\ ~sel.called
    /\ sel' = [sel EXCEPT !.called = TRUE, !.batch = filter_new(sel.lines, sel.last_id)]
    /\ UNCHANGED <<feedId, lo, hi, stateFile, outbox, log, runner>>

NextSel == CallFilterNew

SpecSel == InitSel /\ [][NextSel]_vars

\* build_message on its own, on every batch of up to MaxLines records of the
\* pool lines that parse; sel holds the argument and the text returned.
PoolEntries ==
    {<<EventId(ParseTable[l]), ParseTable[l]>> : l \in {x \in LinePool : ParseTable[x] # None}}

InitMsg ==
    /\ feedId = "long"
    /\ lo = 0
    /\ hi = 0
    /\ stateFile = NoFile
    /\ outbox = <<>>
    /\ log = <<>>
    /\ runner = NoRunners
    /\ \E e \in SeqsUpTo(PoolEntries, MaxLines) :
         sel = [events |-> e, built |-> FALSE, text |-> ""]

CallBuildMessage ==
    /\ ~sel.built
    /\ sel' = [sel EXCEPT !.built = TRUE,
                          !.text = MessageText(build_message(sel.events))]
    /\ UNCHANGED <<feedId, lo, hi, stateFile, outbox, log, runner>>

NextMsg == CallBuildMessage

SpecMsg == InitMsg /\ [][NextMsg]_vars

\* ------------------------------------------------------------------------
\* Vocabulary of the properties
\* ------------------------------------------------------------------------

\* The lines of a bulletin that parse and name a watched region: the
\* positions they hold, and their (eid, record) entries from the top down.
IsMatch(line) == Parsed(line) # None /\ Watched(line, Parsed(line))
MatchIdx(lines) == {i \in 1..Len(lines) : IsMatch(lines[i])}
EntryOf(line) == <<EventId(Parsed(line)), Parsed(line)>>
EntryTable ==
    [l \in LineUniverse |-> IF ParseTable[l] = None THEN None ELSE EntryOf(l)]
EntryAt(lines, i) ==
    IF lines[i] \in DOMAIN EntryTable THEN EntryTable[lines[i]] ELSE EntryOf(lines[i])
EntriesOf(m) == [k \in 1..Len(m) |-> EntryAt(m, k)]
Matches(lines) == EntriesOf(SelectSeq(lines, IsMatch))

\* The event ids of a batch, in order, and as a set.
BatchIds(batch) == [k \in 1..Len(batch) |-> batch[k][1]]
IdSet(ids) == {ids[k] : k \in 1..Len(ids)}

\* The first n elements of a sequence (all of them if it is shorter).
Take(q, n) == SubSeq(q, 1, IF n < Len(q) THEN n ELSE Len(q))

\* What the state file holds as cursor: its stripped content, "" if absent.
CursorOf(file) == IF file.exists THEN Strip(file.content) ELSE ""

Runs == 1..Len(log)

\* In both feeds the event ids of the lines are pairwise distinct, and the
\* page changes only by Publish: newer lines on top, oldest lines dropped.
IdsDistinct(feed) ==
    \A i, j \in 1..Len(feed) :
        (i < j /\ Parsed(feed[i]) # None /\ Parsed(feed[j]) # None)
            => EventId(Parsed(feed[i])) # EventId(Parsed(feed[j]))
FeedsDistinct == IdsDistinct(FeedLong) /\ IdsDistinct(FeedScenario)

\* ------------------------------------------------------------------------
\* C1  delivery failure
\* ------------------------------------------------------------------------

\* C1: in every run whose batch is non-empty and whose send_text call fails,
\* the state file after the run is the state file before the run.
C1_CursorKeptOnSendFailure ==
    \A i \in Runs :
        (log[i].batch # <<>> /\ log[i].sendTried /\ ~log[i].sendOk)
            => log[i].fileAfter = log[i].fileBefore

\* ------------------------------------------------------------------------
\* C2  no event in the messages of two runs
\* ------------------------------------------------------------------------
AllWritesOk == \A i \in Runs : log[i].saveTried => log[i].write = "ok"
AllReadsOk  == \A i \in Runs : log[i].readOk
NoIdSentTwice ==
    \A i, j \in Runs : i < j => IdSet(log[i].ids) \cap IdSet(log[j].ids) = {}

\* C2: with distinct event ids, a page that only gains newer lines and loses
\* its oldest, and every cursor write succeeding, no event id is in the
\* messages sent by two different runs.
C2_NoEventSentTwice ==
    (FeedsDistinct /\ AllWritesOk) => NoIdSentTwice

\* C2 as amended: the same, when also every read of the state file succeeds.
C2_NoEventSentTwiceWhenReadsSucceed ==
    (FeedsDistinct /\ AllWritesOk /\ AllReadsOk) => NoIdSentTwice

\* Two runs have each sent a message, the second after a cursor the first
\* wrote, all reads and writes succeeding.
C2_Witness ==
    /\ FeedsDistinct /\ AllWritesOk /\ AllReadsOk
    /\ \E i, j \in Runs :
          /\ i < j
          /\ log[i].ids # <<>> /\ log[j].ids # <<>>
          /\ log[j].last_id # ""

\* ------------------------------------------------------------------------
\* C3  the cursor after a successful run
\* ------------------------------------------------------------------------

\* C3: after a run with a non-empty batch, a successful delivery and a
\* successful cursor write, the state file holds the event id of the last
\* element of the batch, and that element is the topmost line of the bulletin
\* that parses and names a watched region.
C3_CursorIsNewestOfBatch ==
    \A i \in Runs :
        (log[i].batch # <<>> /\ log[i].sendTried /\ log[i].sendOk /\ log[i].write = "ok")
            => /\ log[i].fileAfter =
                    [exists |-> TRUE, content |-> log[i].batch[Len(log[i].batch)][1]]
               /\ log[i].batch[Len(log[i].batch)] = Matches(log[i].lines)[1]
               /\ (i = Len(log) => stateFile = log[i].fileAfter)

\* A successful run has delivered a batch of several events.
C3_Witness ==
    \E i \in Runs :
        /\ Len(log[i].batch) > 1
        /\ log[i].sendTried /\ log[i].sendOk /\ log[i].write = "ok"
        /\ stateFile.exists

\* ------------------------------------------------------------------------
\* C4  the scenario of the IZMIR MERKEZ line
\* ------------------------------------------------------------------------
ScenarioBulletin == Reverse(FeedScenario)

\* C4: on the bulletin of the IZMIR MERKEZ line and nine well-formed lines
\* of an unwatched region, with an empty cursor, the batch is exactly the
\* record of that line and the cursor after the run is 2024.01.01_10:00:00.
C4_ScenarioSelectsIzmirLine ==
    \A i \in Runs :
        (log[i].loaded /\ log[i].lines = ScenarioBulletin /\ log[i].last_id = ""
            /\ log[i].readOk /\ FaultsOf(log[i]) = 0)
            => /\ log[i].batch = <<EntryAt(<<IzmirLine>>, 1)>>
               /\ log[i].fileAfter =
                    [exists |-> TRUE, content |-> "2024.01.01_10:00:00"]

\* ------------------------------------------------------------------------
\* C5  order of the batch
\* ------------------------------------------------------------------------

\* Order of strings by character code, on the characters of dates and times.
OrdChars == "-./0123456789:"
CharOrd(c) == CHOOSE i \in 1..Len(OrdChars) : SubSeq(OrdChars, i, i) = c
StrLess(a, b) ==
    \E i \in 1..(Len(b)) :
        /\ i <= Len(a) + 1
        /\ SubSeq(a, 1, i - 1) = SubSeq(b, 1, i - 1)
        /\ (i = Len(a) + 1 \/ CharOrd(SubSeq(a, i, i)) < CharOrd(SubSeq(b, i, i)))
\* (date, time) of d1 <= (date, time) of d2, as Python orders tuples.
KeyLeq(d1, d2) ==
    \/ StrLess(d1.date, d2.date)
    \/ d1.date = d2.date /\ (d1.time = d2.time \/ StrLess(d1.time, d2.time))

\* The lines that parse are listed newest first.
NewestFirst(lines) ==
    \A i, j \in 1..Len(lines) :
        (i < j /\ Parsed(lines[i]) # None /\ Parsed(lines[j]) # None)
            => KeyLeq(Parsed(lines[j]), Parsed(lines[i]))

\* The batch is made of lines of the bulletin taken from the bottom up.
BottomUp(batch, lines) ==
    \E f \in [1..Len(batch) -> 1..Len(lines)] :
        /\ \A k \in 1..Len(batch) :
              Parsed(lines[f[k]]) # None /\ batch[k] = EntryAt(lines, f[k])
        /\ \A k \in 1..(Len(batch) - 1) : f[k] > f[k + 1]

Ascending(batch) ==
    \A k \in 1..(Len(batch) - 1) : KeyLeq(batch[k][2], batch[k + 1][2])

\* C5: the batch of filter_new lists its records in the reverse of their
\* order in the bulletin; when the bulletin is newest first, the batch is
\* ascending by (date, time).
C5_BatchIsReversedBulletinOrder ==
    sel.called =>
        /\ BottomUp(sel.batch, sel.lines)
        /\ NewestFirst(sel.lines) => Ascending(sel.batch)

\* filter_new has returned two records of different times from a bulletin
\* that is newest first.
C5_Witness ==
    /\ sel.called
    /\ NewestFirst(sel.lines)
    /\ Len(sel.batch) >= 2
    /\ sel.batch[1][1] # sel.batch[2][1]

\* ------------------------------------------------------------------------
\* C6  lines with the same event id
\* ------------------------------------------------------------------------

\* C6: each event id is at most once in the batch of filter_new, also when
\* the bulletin holds several watched-region lines of the same date and time.
C6_BatchIdsDistinct ==
    sel.called =>
        \A k1, k2 \in 1..Len(sel.batch) :
            k1 < k2 => sel.batch[k1][1] # sel.batch[k2][1]

\* ------------------------------------------------------------------------
\* C7  the cap on a cold start
\* ------------------------------------------------------------------------

\* C7: with an empty cursor and more than MAX_MESSAGES lines that parse and
\* name a watched region, the batch has exactly MAX_MESSAGES elements: the
\* MAX_MESSAGES such lines nearest the top, oldest first.
C7_ColdStartBatchIsCapped ==
    \A i \in Runs :
        (log[i].loaded /\ log[i].last_id = ""
            /\ Cardinality(MatchIdx(log[i].lines)) > MAX_MESSAGES)
            => /\ Len(log[i].batch) = MAX_MESSAGES
               /\ log[i].batch = Reverse(Take(Matches(log[i].lines), MAX_MESSAGES))

\* A run without a state file has met more than MAX_MESSAGES matching lines.
C7_Witness ==
    \E i \in Runs :
        /\ log[i].loaded /\ ~log[i].fileBefore.exists /\ log[i].last_id = ""
        /\ Cardinality(MatchIdx(log[i].lines)) > MAX_MESSAGES

\* ------------------------------------------------------------------------
\* C8  the first run
\* ------------------------------------------------------------------------

\* C8: a run that starts with an empty or absent cursor sends no message.
C8_ColdStartDeliversNothing ==
    \A i \in Runs :
        CursorOf(log[i].fileBefore) = "" => ~(log[i].sendTried /\ log[i].sendOk)

\* C8 as amended: a run that starts with an empty or absent cursor and
\* fetches lines selects the newest matching records of the bulletin, up to
\* MAX_MESSAGES of them, oldest first; it calls send_text exactly when there
\* is such a record, and the message of a successful send shows their ids.
C8_ColdStartDeliversNewest ==
    \A i \in Runs :
        (log[i].loaded /\ CursorOf(log[i].fileBefore) = "")
            => /\ log[i].batch = Reverse(Take(Matches(log[i].lines), MAX_MESSAGES))
               /\ log[i].sendTried <=> (MatchIdx(log[i].lines) # {})
               /\ (log[i].sendTried /\ log[i].sendOk)
                     => /\ log[i].ids = BatchIds(log[i].batch)
                        /\ (i = Len(log)
                              => /\ outbox # <<>>
                                 /\ IdsIn(outbox[Len(outbox)]) = log[i].ids)

\* The first run of a deployment, without a state file, has sent a message.
C8_Witness ==
    \E i \in Runs :
        /\ log[i].loaded /\ ~log[i].fileBefore.exists
        /\ log[i].sendTried /\ log[i].sendOk /\ log[i].ids # <<>>
        /\ outbox # <<>>

\* ------------------------------------------------------------------------
\* C9  running again on an unchanged bulletin
\* ------------------------------------------------------------------------

\* Runs i and i+1 fetched the same bulletin, and the cursor before run i was
\* the event id of its topmost matching line.
RerunAtTop(i) ==
    /\ i + 1 \in Runs
    /\ log[i].fetched /\ log[i + 1].fetched
    /\ log[i].lines = log[i + 1].lines
    /\ MatchIdx(log[i].lines) # {}
    /\ CursorOf(log[i].fileBefore) = Matches(log[i].lines)[1][1]

\* Run r selected nothing, called neither send_text nor save_last_id, and
\* left the state file as it was.
NoOpRun(r) ==
    /\ log[r].batch = <<>>
    /\ ~log[r].sendTried /\ ~log[r].saveTried
    /\ log[r].fileAfter = log[r].fileBefore

\* C9: with the cursor at the event id of the newest matching line, two runs
\* in a row on the unchanged bulletin both select nothing, send nothing and
\* write nothing; the cursor stays as it was.
C9_IdempotentRerun ==
    \A i \in Runs :
        RerunAtTop(i)
            => NoOpRun(i) /\ NoOpRun(i + 1)
                 /\ log[i + 1].fileAfter = log[i].fileBefore

\* C9 as amended: the same, when both runs read the state file successfully.
C9_IdempotentRerunWhenReadsSucceed ==
    \A i \in Runs :
        (RerunAtTop(i) /\ log[i].readOk /\ log[i + 1].readOk)
            => NoOpRun(i) /\ NoOpRun(i + 1)
                 /\ log[i + 1].fileAfter = log[i].fileBefore

\* Two runs in a row have read a cursor that names the newest matching line
\* of the bulletin both fetched.
C9_Witness ==
    \E i \in Runs :
        /\ RerunAtTop(i)
        /\ log[i].loaded /\ log[i + 1].loaded
        /\ log[i].readOk /\ log[i + 1].readOk
        /\ log[i].last_id # ""

\* ------------------------------------------------------------------------
\* C10  the events beyond the cap
\* ------------------------------------------------------------------------

\* The matching lines above the first one whose event id is the cursor (all
\* of them if no matching line has that id), newest first; m is
\* Matches(lines).
CursorPos(m, last_id) == {k \in 1..Len(m) : m[k][1] = last_id}
UnseenOf(m, last_id) ==
    IF CursorPos(m, last_id) = {} THEN m
    ELSE SubSeq(m, 1, Nth(CursorPos(m, last_id), 1) - 1)
Unseen(lines, last_id) == UnseenOf(Matches(lines), last_id)
\* The ids of the unseen events older than the MAX_MESSAGES newest.
SkippedIds(unseen) == {unseen[k][1] : k \in (MAX_MESSAGES + 1)..Len(unseen)}

\* C10 for run i, whose unseen events are unseen.
BacklogDropped(i, unseen) ==
    Len(unseen) > MAX_MESSAGES
        => /\ log[i].batch = Reverse(Take(unseen, MAX_MESSAGES))
           /\ log[i].write = "ok" => CursorOf(log[i].fileAfter) = unseen[1][1]
           /\ \A j \in Runs :
                j >= i => IdSet(log[j].ids) \cap SkippedIds(unseen) = {}

NamesRegion(line) ==
    /\ parse_line(line) # None
    /\ \E c \in {"ISTANBUL", "IZMIR", "MANISA"} :
          Contains(normalize(parse_line(line).place), c)
RegionTable == [l \in LineUniverse |-> NamesRegion(l)]
LineId(line) == EntryTable[line][1]

\* The record of line i of the bulletin is an element of the batch.
Included(batch, lines, i) ==
    /\ Parsed(lines[i]) # None
    /\ \E k \in 1..Len(batch) : batch[k] = EntryAt(lines, i)

\* The scan reaches line i when i is above StopPos, the first watched-region
\* line whose event id is the cursor, and not below CapPos, the
\* MAX_MESSAGES-th watched-region line (Len(lines) + 1 when there is no such
\* line).
CursorLines(lines, last_id) ==
    {j \in 1..Len(lines) : RegionTable[lines[j]] /\ LineId(lines[j]) = last_id}
StopPos(lines, last_id) ==
    IF CursorLines(lines, last_id) = {} THEN Len(lines) + 1
    ELSE Nth(CursorLines(lines, last_id), 1)
RegionLines(lines) == {j \in 1..Len(lines) : RegionTable[lines[j]]}
CapPos(lines) ==
    IF Cardinality(RegionLines(lines)) < MAX_MESSAGES THEN Len(lines) + 1
    ELSE Nth(RegionLines(lines), MAX_MESSAGES)

\* C11 as amended, for a batch and a bulletin whose StopPos and CapPos are
\* stop and cap.
IncludedIffReached(batch, lines, stop, cap) ==
    \A i \in 1..Len(lines) :
        Included(batch, lines, i) <=> (RegionTable[lines[i]] /\ i < stop /\ i <= cap)

\* C11: the record of a line of the bulletin is in the batch if and only if
\* its normalized place contains a watched-region name.
C11_IncludedIffRegionNamed ==
    \A r \in Runs :
        log[r].loaded =>
            \A i \in 1..Len(log[r].lines) :
                Included(log[r].batch, log[r].lines, i) <=> RegionTable[log[r].lines[i]]

\* C11 as amended: the same for the lines the scan reaches (above the first
\* watched-region line whose event id is the cursor, and not below the
\* MAX_MESSAGES-th watched-region line); the record of no other line is in
\* the batch.
C11_ReachedIncludedIffRegionNamed ==
    \A r \in Runs :
        log[r].loaded =>
            IncludedIffReached(log[r].batch, log[r].lines,
                               StopPos(log[r].lines, log[r].last_id),
                               CapPos(log[r].lines))

\* A run has scanned a bulletin with a line of small and Turkish letters that
\* it selected, a line of an unwatched region and a line of 8 tokens naming a
\* watched region that it left out, and its cursor further down.
C11_Witness ==
    \E r \in Runs :
        /\ log[r].loaded /\ log[r].last_id # ""
        /\ \E i, j, k, c \in 1..Len(log[r].lines) :
              /\ i < c /\ j < c /\ k < c
              /\ RegionTable[log[r].lines[c]]
              /\ LineId(log[r].lines[c]) = log[r].last_id
              /\ RegionTable[log[r].lines[i]]
              /\ ~Contains(Parsed(log[r].lines[i]).place, "IZMIR")
              /\ ~Contains(Parsed(log[r].lines[i]).place, "ISTANBUL")
              /\ ~Contains(Parsed(log[r].lines[i]).place, "MANISA")
              /\ Included(log[r].batch, log[r].lines, i)
              /\ Parsed(log[r].lines[j]) # None /\ ~RegionTable[log[r].lines[j]]
              /\ Parsed(log[r].lines[k]) = None /\ Contains(log[r].lines[k], "IZMIR")

\* ------------------------------------------------------------------------
\* C12  a failed fetch
\* ------------------------------------------------------------------------

\* The step appends the record of a run whose GET failed or whose page had
\* no <pre> block.
FetchFailedStep ==
    /\ Len(log') = Len(log) + 1
    /\ ~log'[Len(log')].fetched

\* C12: a run whose fetch fails, or whose page has no data block, gets no
\* lines from fetch_data and ends there: it does not read the state file,
\* calls neither send_text nor save_last_id, and leaves the state file and
\* the chat as they were.
C12_FetchFailureEndsRun ==
    [][FetchFailedStep
          => /\ log'[Len(log')].lines = <<>>
             /\ ~log'[Len(log')].loaded
             /\ ~log'[Len(log')].sendTried
             /\ ~log'[Len(log')].saveTried
             /\ stateFile' = stateFile
             /\ outbox' = outbox]_vars

\* A run failed to fetch after an earlier run had delivered and saved, with
\* lines on the page that the earlier run had not seen.
C12_Witness ==
    \E i \in Runs :
        /\ i > 1
        /\ ~log[i].fetched
        /\ log[i].fileBefore.exists
        /\ log[i - 1].ids # <<>>
        /\ i = Len(log)
        /\ hi > Len(log[i - 1].lines)
        /\ outbox # <<>>

\* ------------------------------------------------------------------------
\* C13  lines that parse_line rejects
\* ------------------------------------------------------------------------

\* The bulletin without its line i.
Without(lines, i) == SubSeq(lines, 1, i - 1) \o SubSeq(lines, i + 1, Len(lines))
FewTokens(line) == Len(Split(line)) < 10
\* The event id the first two tokens of a line would make.
TokenId(line) == Split(line)[1] \o "_" \o Split(line)[2]

\* C13: a line of fewer than 10 tokens is rejected by parse_line and gives
\* no element of the batch, whatever region it names; the batch is the batch
\* of the bulletin without that line.
C13_ShortLineIsSkipped ==
    sel.called =>
        \A i \in 1..Len(sel.lines) :
            FewTokens(sel.lines[i])
                => /\ parse_line(sel.lines[i]) = None
                   /\ \A k \in 1..Len(sel.batch) :
                         sel.batch[k][1] # TokenId(sel.lines[i])
                   /\ sel.batch = filter_new(Without(sel.lines, i), sel.last_id)

\* filter_new has met a line of 8 tokens that names IZMIR between two lines
\* it selected.
C13_Witness ==
    /\ sel.called
    /\ \E i \in 1..Len(sel.lines) :
          /\ 1 < i /\ i < Len(sel.lines)
          /\ FewTokens(sel.lines[i])
          /\ Contains(sel.lines[i], "IZMIR")
          /\ Included(sel.batch, sel.lines, i - 1)
          /\ Included(sel.batch, sel.lines, i + 1)

\* ------------------------------------------------------------------------
\* C14  a failed cursor write
\* ------------------------------------------------------------------------

\* C14: when save_last_id fails in a run that sent a non-empty batch, the
\* run completes, the cursor in the state file is the cursor from before the
\* run, and the next run on the unchanged bulletin selects and sends the same
\* batch again.
C14_WriteFailureKeepsCursor ==
    \A i \in Runs :
        (log[i].batch # <<>> /\ log[i].sendTried /\ log[i].sendOk
            /\ log[i].saveTried /\ log[i].write # "ok")
            => /\ CursorOf(log[i].fileAfter) = CursorOf(log[i].fileBefore)
               /\ (i + 1 \in Runs /\ log[i + 1].lines = log[i].lines
                     /\ FaultsOf(log[i + 1]) = 0)
                     => /\ log[i + 1].batch = log[i].batch
                        /\ log[i + 1].ids = log[i].ids

\* ------------------------------------------------------------------------
\* C16  failures inside a run
\* ------------------------------------------------------------------------

\* C16: every run ends with its record complete, and a stage that fails
\* stops the stages after it: after a failed fetch nothing else is called,
\* after a failed send_text save_last_id is not called.
C16_FailedStageStopsTheRun ==
    \A i \in Runs :
        /\ ~log[i].fetched
              => ~log[i].loaded /\ ~log[i].sendTried /\ ~log[i].saveTried
        /\ (log[i].sendTried /\ ~log[i].sendOk) => ~log[i].saveTried
        /\ log[i].saveTried => log[i].write \in WriteOutcomes

\* ------------------------------------------------------------------------
\* C18  bounds of the batch
\* ------------------------------------------------------------------------

\* The records of the lines of the bulletin above position stop.
EntriesAbove(lines, stop) ==
    {EntryAt(lines, i) : i \in {j \in 1..(stop - 1) : Parsed(lines[j]) # None}}

\* C18 for a batch of a bulletin; above holds the records of the lines above
\* StopPos, the first watched-region line whose event id is the cursor.
BoundedAndAbove(batch, last_id, above) ==
    /\ Len(batch) <= MAX_MESSAGES
    /\ \A k \in 1..Len(batch) :
          /\ batch[k][1] # last_id
          /\ batch[k] \in above

\* C18: the batch of filter_new has at most MAX_MESSAGES elements, none of
\* them has the event id of the cursor, and each of them comes from a line
\* above the first watched-region line whose event id is the cursor.
C18_BatchIsBoundedAndAboveCursor ==
    \A r \in Runs :
        log[r].loaded
            => BoundedAndAbove(log[r].batch, log[r].last_id,
                               EntriesAbove(log[r].lines,
                                            StopPos(log[r].lines, log[r].last_id)))

\* A run found its cursor in the bulletin and returned a batch of exactly
\* MAX_MESSAGES elements, with watched-region lines left between them and
\* the line of the cursor.
C18_Witness ==
    \E r \in Runs :
        /\ log[r].loaded /\ log[r].last_id # ""
        /\ Len(log[r].batch) = MAX_MESSAGES
        /\ \E c \in 1..Len(log[r].lines) :
              /\ RegionTable[log[r].lines[c]]
              /\ LineId(log[r].lines[c]) = log[r].last_id
              /\ Cardinality({j \in 1..(c - 1) : RegionTable[log[r].lines[j]]})
                    > MAX_MESSAGES

\* ------------------------------------------------------------------------
\* C19  no event above the cursor is skipped
\* ------------------------------------------------------------------------

\* C19 for run i, whose unseen events are unseen.
NoneSkipped(i, unseen) ==
    (1 <= Len(unseen) /\ Len(unseen) <= MAX_MESSAGES
        /\ log[i].sendTried /\ log[i].sendOk /\ log[i].write = "ok")
        => /\ \A k \in 1..Len(unseen) : unseen[k][1] \in IdSet(log[i].ids)
           /\ Len(log[i].ids) = Len(unseen)
           /\ (i = Len(log) => /\ outbox # <<>>
                               /\ IdsIn(outbox[Len(outbox)]) = log[i].ids)

\* C19: when between 1 and MAX_MESSAGES watched-region events lie above the
\* cursor in the bulletin and both the delivery and the cursor write succeed,
\* the message the run sent shows every one of them.
C19_NoUnseenEventSkipped ==
    \A i \in Runs :
        log[i].loaded => NoneSkipped(i, Unseen(log[i].lines, log[i].last_id))

\* A run found its cursor in the bulletin below several watched-region
\* lines, no more than MAX_MESSAGES, with unwatched and rejected lines among
\* them, and delivered.
C19_Witness ==
    \E i \in Runs :
        /\ log[i].loaded /\ log[i].last_id # ""
        /\ CursorPos(Matches(log[i].lines), log[i].last_id) # {}
        /\ Len(Unseen(log[i].lines, log[i].last_id)) \in 2..MAX_MESSAGES
        /\ log[i].sendTried /\ log[i].sendOk /\ log[i].write = "ok"
        /\ Len(log[i].ids) >= 2
        /\ \E a, b \in 1..Len(log[i].lines) :
              /\ Parsed(log[i].lines[a]) = None
              /\ Parsed(log[i].lines[b]) # None /\ ~RegionTable[log[i].lines[b]]
              /\ \E c \in (IF a > b THEN a ELSE b) + 1..Len(log[i].lines) :
                    /\ RegionTable[log[i].lines[c]]
                    /\ LineId(log[i].lines[c]) = log[i].last_id

\* ------------------------------------------------------------------------
\* C17  the message of a batch
\* ------------------------------------------------------------------------

\* Reading a message text back.  Its lines are the pieces between newline
\* characters; an event block is a maximal group of non-empty lines after the
\* header.
NewlinePos(s) == {i \in 1..Len(s) : SubSeq(s, i, i) = "\n"}
LineStart(s, k) == IF k = 1 THEN 1 ELSE Nth(NewlinePos(s), k - 1) + 1
LineEnd(s, k) ==
    IF k = Cardinality(NewlinePos(s)) + 1 THEN Len(s) ELSE Nth(NewlinePos(s), k) - 1
TextLines(s) ==
    [k \in 1..(Cardinality(NewlinePos(s)) + 1) |-> SubSeq(s, LineStart(s, k), LineEnd(s, k))]
GroupStarts(ls) == {i \in 1..Len(ls) : ls[i] # "" /\ (i = 1 \/ ls[i - 1] = "")}
GroupEnds(ls) == {i \in 1..Len(ls) : ls[i] # "" /\ (i = Len(ls) \/ ls[i + 1] = "")}
Groups(ls) ==
    [k \in 1..Cardinality(GroupStarts(ls)) |->
        SubSeq(ls, Nth(GroupStarts(ls), k), Nth(GroupEnds(ls), k))]
\* The event blocks of a message text: the groups after the two header lines.
Blocks(text) == Tail(Groups(TextLines(text)))

\* The text of s between a prefix and a suffix ("\n" if s has not both).
Inside(s, pre, suf) ==
    IF /\ Len(s) >= Len(pre) + Len(suf)
       /\ SubSeq(s, 1, Len(pre)) = pre
       /\ SubSeq(s, Len(s) - Len(suf) + 1, Len(s)) = suf
    THEN SubSeq(s, Len(pre) + 1, Len(s) - Len(suf))
    ELSE "\n"
DropComma(t) == IF t # "" /\ SubSeq(t, Len(t), Len(t)) = "," THEN SubSeq(t, 1, Len(t) - 1) ELSE "\n"
TokenOr(toks, k) == IF k \in 1..Len(toks) THEN toks[k] ELSE "\n"

\* What a block of five lines shows.
BlockFields(b) ==
    IF Len(b) # 5 THEN None
    ELSE [place |-> Inside(b[1], "[pin] <b>", "</b>"),
          date  |-> TokenOr(Split(Inside(b[2], "   [calendar] ", " (TS" \o TR_I_DOT \o ")")), 1),
          time  |-> TokenOr(Split(Inside(b[2], "   [calendar] ", " (TS" \o TR_I_DOT \o ")")), 2),
          mag   |-> TokenOr(Split(Inside(b[3], "   [volcano] ", " km")), 1),
          depth |-> TokenOr(Split(Inside(b[3], "   [volcano] ", " km")), 5),
          lat   |-> DropComma(TokenOr(Split(Inside(b[4], "   [round_pushpin] ", "")), 1)),
          lon   |-> TokenOr(Split(Inside(b[4], "   [round_pushpin] ", "")), 2),
          eid   |-> Inside(b[5], "<code>#ID: ", "</code>")]

\* What an element of the batch holds.
EventFields(e) ==
    [place |-> e[2].place, date |-> e[2].date, time |-> e[2].time,
     mag |-> e[2].mag, depth |-> e[2].depth, lat |-> e[2].lat, lon |-> e[2].lon,
     eid |-> e[1]]

\* One block for each event, in order, showing the fields of its event.
BlocksCarry(events, blocks) ==
    /\ Len(blocks) = Len(events)
    /\ \A k \in 1..Len(events) : BlockFields(blocks[k]) = EventFields(events[k])

\* C17: the message of a batch of N events has exactly N event blocks, one
\* for each element in the order of the batch, each showing the place, date,
\* time, magnitude, depth, coordinates and event id of its element as they
\* are; build_message leaves the batch as it was.
C17_OneBlockPerEvent ==
    /\ [](sel.built => BlocksCarry(sel.events, Blocks(sel.text)))
    /\ [][sel'.events = sel.events]_vars

\* build_message has returned the text of a batch of three events, two of
\* them with the same event id.
C17_Witness ==
    /\ sel.built
    /\ Len(sel.events) = 3
    /\ sel.events[1][1] = sel.events[2][1]
    /\ sel.events[1] # sel.events[2]
    /\ Len(sel.text) > Len(MsgHeader)

\* ------------------------------------------------------------------------
\* C20  a cursor that is not in the bulletin
\* ------------------------------------------------------------------------

\* Run r loaded a cursor that is not empty and is the event id of no
\* watched-region line of the bulletin; m is Matches of its bulletin.
StaleCursor(r, m) == log[r].loaded /\ log[r].last_id # "" /\ CursorPos(m, log[r].last_id) = {}

\* The batch is the min(MAX_MESSAGES, Len(m)) newest records of m, oldest
\* first.
AsColdStart(batch, m) ==
    /\ Len(batch) = (IF Len(m) < MAX_MESSAGES THEN Len(m) ELSE MAX_MESSAGES)
    /\ \A k \in 1..Len(batch) : batch[k] = m[Len(batch) + 1 - k]

\* C20: with a cursor that is not empty and is the event id of no
\* watched-region line of the bulletin, filter_new returns what it returns
\* on a cold start: the min(MAX_MESSAGES, number of matches) newest
\* watched-region records.
C20_StaleCursorIsColdStart ==
    \A r \in Runs :
        StaleCursor(r, Matches(log[r].lines))
            => AsColdStart(log[r].batch, Matches(log[r].lines))

\* A run whose cursor names an event the source has revised since sent
\* again an event that an earlier run had sent, every read, send and write
\* of both runs succeeding.
C20_Witness ==
    \E i, j \in Runs :
        /\ i < j
        /\ StaleCursor(j, Matches(log[j].lines))
        /\ FaultsOf(log[i]) = 0 /\ FaultsOf(log[j]) = 0
        /\ log[j].last_id = log[i].batch[Len(log[i].batch)][1]
        /\ IdSet(log[i].ids) \cap IdSet(log[j].ids) # {}

\* ------------------------------------------------------------------------
\* C15  overlapping runs
\* ------------------------------------------------------------------------
BothDone == \A p \in Runners : runner[p].at = "done"
Serialized == \A p \in Runners : ~runner[p].overlap
Overlapped == \A p \in Runners : runner[p].overlap
ConcFaultFree == \A p \in Runners : FaultsOf(runner[p].rec) = 0
ConcReadsWritesOk ==
    \A p \in Runners :
        /\ runner[p].rec.readOk
        /\ runner[p].rec.saveTried => runner[p].rec.write = "ok"

\* The same event is in the messages the chat received from both runs.
DeliveredByBoth ==
    IdSet(runner[1].rec.ids) \cap IdSet(runner[2].rec.ids) # {}

\* Runner p wrote its cursor; the entry it saved is the last of its batch.
SavedOk(p) == runner[p].rec.saveTried /\ runner[p].rec.write = "ok"
SavedEntry(p) == runner[p].rec.batch[Len(runner[p].rec.batch)]
\* Both runs are over and the state file holds the id one of them saved,
\* which is older than the id the other saved.
LostCursorUpdate ==
    /\ BothDone
    /\ \E p, q \in Runners :
          /\ p # q /\ SavedOk(p) /\ SavedOk(q)
          /\ CursorOf(stateFile) = SavedEntry(p)[1]
          /\ SavedEntry(p)[1] # SavedEntry(q)[1]
          /\ KeyLeq(SavedEntry(p)[2], SavedEntry(q)[2])

C15_SerialWitness ==
    /\ Serialized /\ BothDone /\ ConcReadsWritesOk
    /\ \A p \in Runners : runner[p].rec.ids # <<>> /\ SavedOk(p)

=============================================================================
